---- MODULE Spec2Model ----
(***************************************************************************)
(* PyMechTurk, pymechturk/qualification/xml_generator.py: the builders of  *)
(* the MTurk QuestionForm and AnswerKey documents and their rendering.     *)
(*                                                                         *)
(* A Python str is a sequence of one-character strings, so that escaping,  *)
(* splitting and URL encoding are computed character by character.  An     *)
(* Optional[...] argument is <<>> (None) or <<v>>.  An ET.Element is a     *)
(* record [tag, attrib, text, children]; attrib and the wrappers'          *)
(* _attributes are sequences of [name, value] in insertion order.  The     *)
(* characters of the inputs are printable ASCII.                           *)
(***************************************************************************)
EXTENDS Integers, Sequences, FiniteSets

VARIABLES
  _ID,          \* Question._ID, the class attribute
  questions,    \* the Question objects constructed so far, in construction order
  constructed,  \* per construction: the question_id passed, was the id auto-assigned (observation only)
  form,         \* a QuestionForm
  added,        \* the calls made on form, in call order (observation only)
  key,          \* an AnswerKey
  last,         \* the last call made on key and how it ended (observation only)
  pc,           \* concurrent construction: each task's position in Question.__init__
  loc,          \* concurrent construction: each task's locals
  obj,          \* the Content or Answer being built and rendered
  args,         \* the constructor arguments / calls that built obj (observation only)
  out,          \* the result of the last to_string call on obj
  mem,          \* objects by reference: a heap, and a Content, a QuestionForm, questions on it
  snap          \* what each conversion on mem produced when it was made (observation only)

vars == <<_ID, questions, constructed, form, added, key, last, pc, loc, obj, args, out,
          mem, snap>>

(***************************************************************************)
(* Strings.                                                                *)
(***************************************************************************)

\* The string literals of the source, as character sequences.
Chars(s) ==
  CASE s = "Title" -> <<"T","i","t","l","e">>
    [] s = "Text" -> <<"T","e","x","t">>
    [] s = "FormattedContent" -> <<"F","o","r","m","a","t","t","e","d","C","o","n","t","e","n","t">>
    [] s = "List" -> <<"L","i","s","t">>
    [] s = "ListItem" -> <<"L","i","s","t","I","t","e","m">>
    [] s = "Binary" -> <<"B","i","n","a","r","y">>
    [] s = "MimeType" -> <<"M","i","m","e","T","y","p","e">>
    [] s = "Type" -> <<"T","y","p","e">>
    [] s = "SubType" -> <<"S","u","b","T","y","p","e">>
    [] s = "DataURL" -> <<"D","a","t","a","U","R","L">>
    [] s = "AltText" -> <<"A","l","t","T","e","x","t">>
    [] s = "Constraints" -> <<"C","o","n","s","t","r","a","i","n","t","s">>
    [] s = "AnswerFormatRegex" -> <<"A","n","s","w","e","r","F","o","r","m","a","t","R","e","g","e","x">>
    [] s = "Length" -> <<"L","e","n","g","t","h">>
    [] s = "IsNumeric" -> <<"I","s","N","u","m","e","r","i","c">>
    [] s = "NumberOfLinesSuggestion" -> <<"N","u","m","b","e","r","O","f","L","i","n","e","s","S","u","g","g","e","s","t","i","o","n">>
    [] s = "DefaultText" -> <<"D","e","f","a","u","l","t","T","e","x","t">>
    [] s = "MinSelectionCount" -> <<"M","i","n","S","e","l","e","c","t","i","o","n","C","o","u","n","t">>
    [] s = "MaxSelectionCount" -> <<"M","a","x","S","e","l","e","c","t","i","o","n","C","o","u","n","t">>
    [] s = "StyleSuggestion" -> <<"S","t","y","l","e","S","u","g","g","e","s","t","i","o","n">>
    [] s = "Selections" -> <<"S","e","l","e","c","t","i","o","n","s">>
    [] s = "Selection" -> <<"S","e","l","e","c","t","i","o","n">>
    [] s = "SelectionIdentifier" -> <<"S","e","l","e","c","t","i","o","n","I","d","e","n","t","i","f","i","e","r">>
    [] s = "QuestionIdentifier" -> <<"Q","u","e","s","t","i","o","n","I","d","e","n","t","i","f","i","e","r">>
    [] s = "DisplayName" -> <<"D","i","s","p","l","a","y","N","a","m","e">>
    [] s = "IsRequired" -> <<"I","s","R","e","q","u","i","r","e","d">>
    [] s = "QuestionContent" -> <<"Q","u","e","s","t","i","o","n","C","o","n","t","e","n","t">>
    [] s = "AnswerSpecification" -> <<"A","n","s","w","e","r","S","p","e","c","i","f","i","c","a","t","i","o","n">>
    [] s = "Overview" -> <<"O","v","e","r","v","i","e","w">>
    [] s = "Question" -> <<"Q","u","e","s","t","i","o","n">>
    [] s = "QuestionForm" -> <<"Q","u","e","s","t","i","o","n","F","o","r","m">>
    [] s = "AnswerKey" -> <<"A","n","s","w","e","r","K","e","y">>
    [] s = "Content" -> <<"C","o","n","t","e","n","t">>
    [] s = "FreeTextAnswer" -> <<"F","r","e","e","T","e","x","t","A","n","s","w","e","r">>
    [] s = "SelectionAnswer" -> <<"S","e","l","e","c","t","i","o","n","A","n","s","w","e","r">>
    [] s = "QualificationValueMapping" -> <<"Q","u","a","l","i","f","i","c","a","t","i","o","n","V","a","l","u","e","M","a","p","p","i","n","g">>
    [] s = "PercentageMapping" -> <<"P","e","r","c","e","n","t","a","g","e","M","a","p","p","i","n","g">>
    [] s = "MaximumSummedScore" -> <<"M","a","x","i","m","u","m","S","u","m","m","e","d","S","c","o","r","e">>
    [] s = "AnswerOption" -> <<"A","n","s","w","e","r","O","p","t","i","o","n">>
    [] s = "AnswerScore" -> <<"A","n","s","w","e","r","S","c","o","r","e">>
    [] s = "regex" -> <<"r","e","g","e","x">>
    [] s = "errorText" -> <<"e","r","r","o","r","T","e","x","t">>
    [] s = "minLength" -> <<"m","i","n","L","e","n","g","t","h">>
    [] s = "maxLength" -> <<"m","a","x","L","e","n","g","t","h">>
    [] s = "minValue" -> <<"m","i","n","V","a","l","u","e">>
    [] s = "maxValue" -> <<"m","a","x","V","a","l","u","e">>
    [] s = "xmlns" -> <<"x","m","l","n","s">>
    [] s = "image" -> <<"i","m","a","g","e">>
    [] s = "true" -> <<"t","r","u","e">>
    [] s = "false" -> <<"f","a","l","s","e">>
    [] s = "QuestionID_" -> <<"Q","u","e","s","t","i","o","n","I","D","_">>

None == <<>>

Some(v) == <<v>>

\* bool(x) of an Optional[str] and of an Optional[int]
TruthyStr(o) == o # None /\ o[1] # <<>>

TruthyInt(o) == o # None /\ o[1] # 0

Digits == <<"0","1","2","3","4","5","6","7","8","9">>

RECURSIVE NatStr(_)
NatStr(n) == IF n < 10 THEN <<Digits[n + 1]>> ELSE NatStr(n \div 10) \o <<Digits[(n % 10) + 1]>>

\* str(n) of an int
str(n) == IF n < 0 THEN <<"-">> \o NatStr(0 - n) ELSE NatStr(n)

Max(S) == CHOOSE x \in S : \A y \in S : y <= x

Min(S) == CHOOSE x \in S : \A y \in S : x <= y

StartsAt(s, i, p) == i + Len(p) - 1 <= Len(s) /\ SubSeq(s, i, i + Len(p) - 1) = p

RECURSIVE replace_range(_, _, _, _, _)
replace_range(text, lo, hi, char, code) ==
  IF lo > hi THEN <<>>
  ELSE IF lo = hi THEN (IF text[lo] = char THEN code ELSE <<text[lo]>>)
  ELSE LET mid == (lo + hi) \div 2
       IN replace_range(text, lo, mid, char, code) \o replace_range(text, mid + 1, hi, char, code)

\* text.replace(char, code) for a one-character char
replace(text, char, code) ==
  IF \A i \in 1..Len(text) : text[i] # char THEN text
  ELSE replace_range(text, 1, Len(text), char, code)

RECURSIVE concat_range(_, _, _)
concat_range(ss, lo, hi) ==
  IF lo > hi THEN <<>>
  ELSE IF lo = hi THEN ss[lo]
  ELSE LET mid == (lo + hi) \div 2
       IN concat_range(ss, lo, mid) \o concat_range(ss, mid + 1, hi)

\* "".join(ss)
concat(ss) == concat_range(ss, 1, Len(ss))

(***************************************************************************)
(* xml.etree.ElementTree elements and their serialisation.                 *)
(***************************************************************************)

NoText == [kind |-> "none", s |-> <<>>, n |-> 0]

StrText(s) == [kind |-> "str", s |-> s, n |-> 0]

IntText(n) == [kind |-> "int", s |-> <<>>, n |-> n]

\* ET.Element(tag, attrib)
Element(tag, attrib) == [tag |-> tag, attrib |-> attrib, text |-> NoText, children |-> <<>>]

\* an element with its text set:  e = ET.Element(tag); e.text = text
TextElement(tag, text) == [Element(tag, <<>>) EXCEPT !.text = text]

\* `if text:` in the serialiser
TruthyText(t) == (t.kind = "str" /\ t.s # <<>>) \/ (t.kind = "int" /\ t.n # 0)

amp == <<"&","a","m","p",";">>

lt == <<"&","l","t",";">>

gt == <<"&","g","t",";">>

quot == <<"&","q","u","o","t",";">>

\* ElementTree._escape_cdata of a str
_escape_cdata(text) == replace(replace(replace(text, "&", amp), "<", lt), ">", gt)

\* ElementTree._escape_attrib of a str
_escape_attrib(text) ==
  replace(replace(replace(replace(_escape_cdata(text), "\"", quot),
    "\r", <<"&","#","1","3",";">>), "\n", <<"&","#","1","0",";">>), "\t", <<"&","#","0","9",";">>)

\* ElementTree raises TypeError("cannot serialize ...") on a text that is not a str
RECURSIVE Serializable(_)
Serializable(elem) ==
  /\ ~(TruthyText(elem.text) /\ elem.text.kind # "str")
  /\ \A i \in 1..Len(elem.children) : Serializable(elem.children[i])

serialize_items(items) ==
  concat([i \in 1..Len(items) |->
    <<" ">> \o Chars(items[i].name) \o <<"=","\"">> \o _escape_attrib(items[i].value) \o <<"\"">>])

RECURSIVE _serialize_xml(_)
_serialize_xml(elem) ==
  LET head == <<"<">> \o Chars(elem.tag) \o serialize_items(elem.attrib)
  IN IF TruthyText(elem.text) \/ Len(elem.children) > 0
     THEN head \o <<">">>
          \o (IF TruthyText(elem.text) THEN _escape_cdata(elem.text.s) ELSE <<>>)
          \o concat([i \in 1..Len(elem.children) |-> _serialize_xml(elem.children[i])])
          \o <<"<","/">> \o Chars(elem.tag) \o <<">">>
     ELSE head \o <<" ","/",">">>

ETDeclaration == <<"<","?","x","m","l"," ","v","e","r","s","i","o","n","=","'","1",".","0","'"," ","e","n","c","o","d","i","n","g","=","'","a","s","c","i","i","'","?",">">>

\* ET.tostring(tree, encoding="ascii", method="xml").decode("ascii")
tostring(tree) == ETDeclaration \o <<"\n">> \o _serialize_xml(tree)

(***************************************************************************)
(* xml.dom.minidom: the document parsed from tostring(tree) has the        *)
(* elements, attributes and texts of tree (the entity references are       *)
(* decoded by the parser); an element with a text has one text node as its *)
(* first child.                                                            *)
(***************************************************************************)

\* minidom._write_data
_write_data(data) == replace(replace(replace(replace(data, "&", amp), "<", lt), "\"", quot), ">", gt)

Spaces(n) == [i \in 1..n |-> " "]

writexml_attrs(items) ==
  concat([i \in 1..Len(items) |->
    <<" ">> \o Chars(items[i].name) \o <<"=","\"">> \o _write_data(items[i].value) \o <<"\"">>])

\* minidom.Element.writexml(writer, indent, addindent, newl="\n")
RECURSIVE writexml(_, _, _)
writexml(elem, indent, addindent) ==
  LET head == indent \o <<"<">> \o Chars(elem.tag) \o writexml_attrs(elem.attrib)
      close == <<"<","/">> \o Chars(elem.tag) \o <<">","\n">>
      hasText == TruthyText(elem.text)
      kids == concat([i \in 1..Len(elem.children) |->
                writexml(elem.children[i], indent \o addindent, addindent)])
  IN IF hasText /\ Len(elem.children) = 0
     THEN head \o <<">">> \o _write_data(elem.text.s) \o close
     ELSE IF Len(elem.children) > 0
     THEN head \o <<">","\n">>
          \o (IF hasText THEN _write_data(indent \o addindent \o elem.text.s \o <<"\n">>) ELSE <<>>)
          \o kids \o indent \o close
     ELSE head \o <<"/",">","\n">>

DOMDeclaration == <<"<","?","x","m","l"," ","v","e","r","s","i","o","n","=","\"","1",".","0","\""," ","?",">">>

\* minidom.parseString(tostring(tree)).toprettyxml(indent=' ' * indent)
toprettyxml(tree, indent) == DOMDeclaration \o <<"\n">> \o writexml(tree, <<>>, Spaces(indent))

(***************************************************************************)
(* XMLWrapper.                                                             *)
(***************************************************************************)

\* XMLWrapper.__init__ of an instance of class cls
XMLWrapper(cls) == [cls |-> cls, _elements |-> <<>>, _attributes |-> <<>>]

\* root_name "" stands for None (and for the empty string): `if not root_name`
compile_elements(self, root_name) ==
  [tag |-> IF root_name = "" THEN self.cls ELSE root_name,
   attrib |-> self._attributes,
   text |-> NoText,
   children |-> self._elements]

encoder_doubled ==
  << <<"$", <<"%","2","4">> >>, <<"&", <<"%","2","6">> >>, <<"+", <<"%","2","B">> >>,
     <<",", <<"%","2","C">> >>, <<"/", <<"%","2","F">> >>, <<":", <<"%","3","A">> >>,
     <<";", <<"%","3","B">> >>, <<"?", <<"%","3","F">> >>,
     <<"@", <<"%","4","0">> >>, <<"%", <<"%","2","5">> >> >>

encoder ==
  << <<"$", <<"%","2","4">> >>, <<"&", <<"%","2","6">> >>, <<"+", <<"%","2","B">> >>,
     <<",", <<"%","2","C">> >>, <<"/", <<"%","2","F">> >>, <<":", <<"%","3","A">> >>,
     <<";", <<"%","3","B">> >>, <<"?", <<"%","3","F">> >>, <<"@", <<"%","4","0">> >> >>

RECURSIVE encode_from(_, _)
encode_from(text, i) ==
  IF i > Len(encoder) THEN text
  ELSE encode_from(replace(text, encoder[i][1], encoder[i][2]), i + 1)

\* for char, code in encoder: text = text.replace(char, code)
_encode_for_url(text) == encode_from(text, 1)

XmlOpen == <<"<","?","x","m","l">>

\* the end of the greedy match of <\?xml.*\?> that starts at i, 0 when there is none:
\* `.` does not match a newline
MatchEnd(s, i) ==
  LET stops == {j \in i..Len(s) : s[j] = "\n"}
      lineEnd == IF stops = {} THEN Len(s) ELSE Min(stops) - 1
      ends == {k \in (i + 6)..lineEnd : s[k - 1] = "?" /\ s[k] = ">"}
  IN IF StartsAt(s, i, XmlOpen) /\ ends # {} THEN Max(ends) ELSE 0

\* re.sub(r"<\?xml.*\?>", '', s)
RECURSIVE re_sub(_)
re_sub(s) ==
  LET starts == {i \in 1..Len(s) : MatchEnd(s, i) # 0}
  IN IF starts = {} THEN s
     ELSE LET i == Min(starts)
          IN SubSeq(s, 1, i - 1) \o re_sub(SubSeq(s, MatchEnd(s, i) + 1, Len(s)))

Returned(value) == [exc |-> "", value |-> value]

Raised(exc) == [exc |-> exc, value |-> <<>>]

\* XMLWrapper.to_string
to_string(self, root_name, url_safe, formatted, indent) ==
  LET tree == compile_elements(self, root_name)
  IN IF ~Serializable(tree) THEN Raised("TypeError")
     ELSE LET tree_str == tostring(tree)
              pretty == IF formatted THEN toprettyxml(tree, indent) ELSE tree_str
              stripped == LET t == re_sub(pretty) IN SubSeq(t, 2, Len(t))
          IN Returned(IF url_safe THEN _encode_for_url(stripped) ELSE stripped)

(***************************************************************************)
(* Content.                                                                *)
(***************************************************************************)

append_element(self, element) == [self EXCEPT !._elements = Append(@, element)]

add_title(self, title) == append_element(self, TextElement("Title", StrText(title)))

add_text(self, text) == append_element(self, TextElement("Text", StrText(text)))

CDataOpen == <<"<","!","[","C","D","A","T","A","[">>

CDataClose == <<"]","]",">">>

add_formatted_text(self, text) ==
  append_element(self, TextElement("FormattedContent", StrText(CDataOpen \o text \o CDataClose)))

add_list(self, items) ==
  append_element(self,
    [Element("List", <<>>) EXCEPT
       !.children = [i \in 1..Len(items) |-> TextElement("ListItem", StrText(items[i]))]])

\* url.split(".")[-1]: what follows the last ".", the whole url when it holds none
split_last(url) ==
  LET dots == {i \in 1..Len(url) : url[i] = "."}
  IN IF dots = {} THEN url ELSE SubSeq(url, Max(dots) + 1, Len(url))

add_image(self, url, alt_text) ==
  LET type == TextElement("Type", StrText(Chars("image")))
      subtype == TextElement("SubType", StrText(split_last(url)))
      mime == [Element("MimeType", <<>>) EXCEPT
                 !.children = IF split_last(url) # <<>> THEN <<type, subtype>> ELSE <<type>>]
      binary == [Element("Binary", <<>>) EXCEPT
                   !.children = <<mime, TextElement("DataURL", StrText(url)),
                                  TextElement("AltText", StrText(alt_text))>>]
  IN append_element(self, binary)

(***************************************************************************)
(* FreeTextAnswer.                                                         *)
(***************************************************************************)

_create_reg_exp(reg_exp, error_text) ==
  Element("AnswerFormatRegex",
    <<[name |-> "regex", value |-> reg_exp]>>
    \o (IF TruthyStr(error_text) THEN <<[name |-> "errorText", value |-> error_text[1]]>> ELSE <<>>))

_add_length_constraints(min_length, max_length) ==
  Element("Length",
    (IF TruthyInt(min_length) THEN <<[name |-> "minLength", value |-> str(min_length[1])]>> ELSE <<>>)
    \o (IF TruthyInt(max_length) THEN <<[name |-> "maxLength", value |-> str(max_length[1])]>> ELSE <<>>))

_create_is_numeric(min_val, max_val) ==
  Element("IsNumeric",
    (IF TruthyInt(min_val) THEN <<[name |-> "minValue", value |-> str(min_val[1])]>> ELSE <<>>)
    \o (IF TruthyInt(max_val) THEN <<[name |-> "maxValue", value |-> str(max_val[1])]>> ELSE <<>>))

_add_constraints_unguarded(self, reg_exp, error_text, min_length, max_length, is_numeric, min_val, max_val) ==
  append_element(self,
    [Element("Constraints", <<>>) EXCEPT !.children =
       (IF TruthyStr(reg_exp) THEN <<_create_reg_exp(reg_exp[1], error_text)>> ELSE <<>>)
       \o (IF TruthyInt(min_length) \/ TruthyInt(max_length)
           THEN <<_add_length_constraints(min_length, max_length)>> ELSE <<>>)
       \o (IF is_numeric THEN <<_create_is_numeric(min_val, max_val)>> ELSE <<>>)])

_add_constraints(self, reg_exp, error_text, min_length, max_length, is_numeric, min_val, max_val) ==
  append_element(self,
    [Element("Constraints", <<>>) EXCEPT !.children =
       (IF TruthyStr(reg_exp) /\ ~is_numeric THEN <<_create_reg_exp(reg_exp[1], error_text)>> ELSE <<>>)
       \o (IF (TruthyInt(min_length) \/ TruthyInt(max_length)) /\ ~is_numeric
           THEN <<_add_length_constraints(min_length, max_length)>> ELSE <<>>)
       \o (IF is_numeric THEN <<_create_is_numeric(min_val, max_val)>> ELSE <<>>)])

_set_number_of_lines(self, num_lines) ==
  append_element(self, TextElement("NumberOfLinesSuggestion", StrText(str(num_lines))))

_add_text(self, text) == append_element(self, TextElement("DefaultText", StrText(text)))

\* FreeTextAnswer.__init__
FreeTextAnswer(default_text, lines_in_box, reg_exp, error_text, min_length, max_length, is_numeric, min_val, max_val) ==
  LET s0 == XMLWrapper("FreeTextAnswer")
      s1 == IF TruthyStr(reg_exp) \/ TruthyInt(min_length) \/ TruthyInt(max_length) \/ is_numeric
            THEN _add_constraints(s0, reg_exp, error_text, min_length, max_length,
                                  is_numeric, min_val, max_val)
            ELSE s0
      s2 == IF TruthyStr(default_text) THEN _add_text(s1, default_text[1]) ELSE s1
  IN IF TruthyInt(lines_in_box) THEN _set_number_of_lines(s2, lines_in_box[1]) ELSE s2

(***************************************************************************)
(* SelectionAnswer.  min_selections and max_selections are ints, as        *)
(* annotated; selections is a dict, a sequence of [id, text] with distinct *)
(* ids, in insertion order.                                                *)
(***************************************************************************)

_add_min_selections(self, number) ==
  append_element(self, TextElement("MinSelectionCount", IntText(number)))

_add_max_selections(self, number) ==
  append_element(self, TextElement("MaxSelectionCount", IntText(number)))

_add_answer_style(self, style) ==
  append_element(self, TextElement("StyleSuggestion", StrText(style)))

_add_selections(self, selections) ==
  append_element(self,
    [Element("Selections", <<>>) EXCEPT !.children =
       [i \in 1..Len(selections) |->
          [Element("Selection", <<>>) EXCEPT !.children =
             <<TextElement("SelectionIdentifier", StrText(selections[i].id)),
               TextElement("Text", StrText(selections[i].text))>>]]])

\* SelectionAnswer.__init__
SelectionAnswer(selections, answer_style, min_selections, max_selections) ==
  LET s0 == XMLWrapper("SelectionAnswer")
      s1 == IF TruthyInt(min_selections) THEN _add_min_selections(s0, min_selections[1]) ELSE s0
      s2 == IF TruthyInt(max_selections) THEN _add_max_selections(s1, max_selections[1]) ELSE s1
      s3 == IF TruthyStr(answer_style) THEN _add_answer_style(s2, answer_style[1]) ELSE s2
  IN _add_selections(s3, selections)

(***************************************************************************)
(* Question.  The class attribute Question._ID is passed in and handed     *)
(* back by the operators that read and write it.                           *)
(***************************************************************************)

\* line 370: question_id if question_id else f"QuestionID_{self._ID}"
choose_question_id(question_id, counter) ==
  IF TruthyStr(question_id) THEN question_id[1] ELSE Chars("QuestionID_") \o str(counter)

_add_id_on_instance(self, counter) ==
  [self |-> append_element(self, TextElement("QuestionIdentifier", StrText(self._question_id))),
   _ID |-> counter]

\* Question._add_id: appends the identifier and increments the class attribute
_add_id(self, counter) ==
  [self |-> append_element(self, TextElement("QuestionIdentifier", StrText(self._question_id))),
   _ID |-> counter + 1]

_add_name(self, name) == append_element(self, TextElement("DisplayName", StrText(name)))

_add_is_required(self, is_required) ==
  append_element(self,
    TextElement("IsRequired", StrText(IF is_required THEN Chars("true") ELSE Chars("false"))))

_add_content(self, content) == append_element(self, compile_elements(content, "QuestionContent"))

_add_answer(self, answer) ==
  append_element(self,
    [Element("AnswerSpecification", <<>>) EXCEPT !.children = <<compile_elements(answer, "")>>])

\* lines 369-370 of Question.__init__
Question_begin(question_id, counter) ==
  [cls |-> "Question", _elements |-> <<>>, _attributes |-> <<>>,
   _question_id |-> choose_question_id(question_id, counter)]

\* lines 372-376 of Question.__init__
Question_finish(self, content, answer, name, is_required) ==
  LET s1 == IF TruthyStr(name) THEN _add_name(self, name[1]) ELSE self
  IN _add_answer(_add_content(_add_is_required(s1, is_required), content), answer)

Question_counting_assigned(content, answer, name, is_required, question_id, counter) ==
  LET r == _add_id(Question_begin(question_id, counter), counter)
  IN [self |-> Question_finish(r.self, content, answer, name, is_required),
      _ID |-> IF TruthyStr(question_id) THEN counter ELSE r._ID]

\* Question.__init__ run without interruption: [self, _ID]
Question(content, answer, name, is_required, question_id, counter) ==
  LET r == _add_id(Question_begin(question_id, counter), counter)
  IN [self |-> Question_finish(r.self, content, answer, name, is_required), _ID |-> r._ID]

(***************************************************************************)
(* QuestionForm.                                                           *)
(***************************************************************************)

QuestionFormXsd == <<"h","t","t","p",":","/","/","m","e","c","h","a","n","i","c","a","l","t","u","r","k",".","a","m","a","z","o","n","a","w","s",".","c","o","m","/","A","W","S","M","e","c","h","a","n","i","c","a","l","T","u","r","k","D","a","t","a","S","c","h","e","m","a","s","/","2","0","1","7","-","1","1","-","0","6","/","Q","u","e","s","t","i","o","n","F","o","r","m",".","x","s","d">>

QuestionForm ==
  [XMLWrapper("QuestionForm") EXCEPT !._attributes = <<[name |-> "xmlns", value |-> QuestionFormXsd]>>]

add_overview(self, overview) == append_element(self, compile_elements(overview, "Overview"))

add_question_first(self, question) ==
  [self EXCEPT !._elements = <<compile_elements(question, "Question")>> \o @]

add_question(self, question) == append_element(self, compile_elements(question, "Question"))

(***************************************************************************)
(* AnswerKey.  keys is a dict, a sequence of [score, answers] with         *)
(* distinct scores, in insertion order.  A call returns [self, exc]: the   *)
(* object after the call and the exception it raised ("" for none).        *)
(***************************************************************************)

AnswerKeyXsd == <<"h","t","t","p",":","/","/","m","e","c","h","a","n","i","c","a","l","t","u","r","k",".","a","m","a","z","o","n","a","w","s",".","c","o","m","/","A","W","S","M","e","c","h","a","n","i","c","a","l","T","u","r","k","D","a","t","a","S","c","h","e","m","a","s","/","2","0","0","5","-","1","0","-","0","1","/","A","n","s","w","e","r","K","e","y",".","x","s","d">>

AnswerKey ==
  [cls |-> "AnswerKey", _elements |-> <<>>,
   _attributes |-> <<[name |-> "xmlns", value |-> AnswerKeyXsd]>>,
   _is_score_added |-> FALSE]

QualificationValueMapping(score) ==
  [Element("QualificationValueMapping", <<>>) EXCEPT !.children =
     <<[Element("PercentageMapping", <<>>) EXCEPT !.children =
          <<TextElement("MaximumSummedScore", StrText(str(score)))>>]>>]

add_max_score_unchecked(self, score) ==
  [self |-> [append_element(self, QualificationValueMapping(score)) EXCEPT !._is_score_added = TRUE],
   exc |-> ""]

add_max_score(self, score) ==
  IF self._is_score_added THEN [self |-> self, exc |-> "AssertionError"]
  ELSE [self |-> [append_element(self, QualificationValueMapping(score))
                    EXCEPT !._is_score_added = TRUE],
        exc |-> ""]

_create_question_id(question_id) == TextElement("QuestionIdentifier", StrText(question_id))

_create_question_keys_sorted(keys) ==
  LET at(r) == CHOOSE i \in 1..Len(keys) :
                 Cardinality({j \in 1..Len(keys) : keys[j].score < keys[i].score}) = r - 1
      sorted == [r \in 1..Len(keys) |-> keys[at(r)]]
  IN [i \in 1..Len(sorted) |->
        [Element("AnswerOption", <<>>) EXCEPT !.children =
           [j \in 1..Len(sorted[i].answers) |->
              TextElement("SelectionIdentifier", StrText(sorted[i].answers[j]))]
           \o <<TextElement("AnswerScore", StrText(str(sorted[i].score)))>>]]

_create_question_keys(keys) ==
  [i \in 1..Len(keys) |->
     [Element("AnswerOption", <<>>) EXCEPT !.children =
        [j \in 1..Len(keys[i].answers) |->
           TextElement("SelectionIdentifier", StrText(keys[i].answers[j]))]
        \o <<TextElement("AnswerScore", StrText(str(keys[i].score)))>>]]

add_question_keys(self, question, keys) ==
  [self |-> append_element(self,
              [Element("Question", <<>>) EXCEPT !.children =
                 <<_create_question_id(question._question_id)>> \o _create_question_keys(keys)]),
   exc |-> ""]

(***************************************************************************)
(* The same builders with Python's object references.  The heap is a       *)
(* sequence of cells and a reference is an index into it.  A cell is an    *)
(* ET.Element [tag, attrib, text, children] whose children are references, *)
(* or a Python list (tag "list") whose children are its items.  A wrapper  *)
(* holds the reference of its _elements list.  An operator returns the     *)
(* heap after the call, together with the reference it returns if any.     *)
(***************************************************************************)

ListCell == [tag |-> "list", attrib |-> <<>>, text |-> NoText, children |-> <<>>]

\* list(): a new empty list
new_list(heap) == [heap |-> Append(heap, ListCell), ref |-> Len(heap) + 1]

\* target.append(ref), on a list or on an Element
append_ref(heap, target, ref) == [heap EXCEPT ![target].children = Append(@, ref)]

RECURSIVE store(_, _), store_all(_, _, _)

\* an element tree built by ET.Element / ET.SubElement placed on the heap
store(heap, element) ==
  LET c == store_all(heap, element.children, 1)
  IN [heap |-> Append(c.heap, [element EXCEPT !.children = c.refs]), ref |-> Len(c.heap) + 1]

store_all(heap, elements, i) ==
  IF i > Len(elements) THEN [heap |-> heap, refs |-> <<>>]
  ELSE LET a == store(heap, elements[i])
           r == store_all(a.heap, elements, i + 1)
       IN [heap |-> r.heap, refs |-> <<a.ref>> \o r.refs]

RECURSIVE load(_, _)

\* the tree reachable from a reference, as the serialiser walks it
load(heap, ref) ==
  [heap[ref] EXCEPT !.children = [i \in 1..Len(@) |-> load(heap, @[i])]]

\* the items of a list, each as the tree reachable from it
load_all(heap, list) == [i \in 1..Len(heap[list].children) |-> load(heap, heap[list].children[i])]

\* a wrapper on the heap as the tree-valued record of the builders above
value_of(heap, self) == [self EXCEPT !._elements = load_all(heap, @)]

\* the element a builder method created and appended
created(self) == self._elements[Len(self._elements)]

\* XMLWrapper.__init__
XMLWrapper_ref(heap, cls) ==
  LET l == new_list(heap)
  IN [heap |-> l.heap, self |-> [cls |-> cls, _elements |-> l.ref, _attributes |-> <<>>]]

\* element = ET.Element(...); ...; self._elements.append(element)
append_element_ref(heap, self, element) ==
  LET e == store(heap, element)
  IN append_ref(e.heap, self._elements, e.ref)

compile_elements_shared(heap, self, root_name) ==
  [heap |-> [heap EXCEPT ![self._elements].tag = IF root_name = "" THEN self.cls ELSE root_name,
                         ![self._elements].attrib = self._attributes],
   ref |-> self._elements]

\* XMLWrapper.compile_elements: a new root Element to which the items of
\* self._elements are appended one by one
compile_elements_ref(heap, self, root_name) ==
  LET root == [tag |-> IF root_name = "" THEN self.cls ELSE root_name,
               attrib |-> self._attributes,
               text |-> NoText,
               children |-> heap[self._elements].children]
  IN [heap |-> Append(heap, root), ref |-> Len(heap) + 1]

\* Question.__init__: [heap, self, _ID]
Question_ref(heap, content, answer, name, is_required, question_id, counter) ==
  LET w == XMLWrapper_ref(heap, "Question")
      begun == Question_begin(question_id, counter)
      self == [cls |-> "Question", _elements |-> w.self._elements, _attributes |-> <<>>,
               _question_id |-> begun._question_id]
      id == _add_id(begun, counter)
      h1 == append_element_ref(w.heap, self, created(id.self))
      h2 == IF TruthyStr(name)
            THEN append_element_ref(h1, self, created(_add_name(begun, name[1])))
            ELSE h1
      h3 == append_element_ref(h2, self, created(_add_is_required(begun, is_required)))
      c == compile_elements_ref(h3, content, "QuestionContent")
      h4 == append_ref(c.heap, self._elements, c.ref)
      h5 == append_element_ref(h4, self, created(_add_answer(begun, answer)))
  IN [heap |-> h5, self |-> self, _ID |-> id._ID]

\* QuestionForm.add_overview
add_overview_ref(heap, self, overview) ==
  LET c == compile_elements_ref(heap, overview, "Overview")
  IN append_ref(c.heap, self._elements, c.ref)

\* QuestionForm.add_question
add_question_ref(heap, self, question) ==
  LET c == compile_elements_ref(heap, question, "Question")
  IN append_ref(c.heap, self._elements, c.ref)

(***************************************************************************)
(* Bounds and inputs.                                                      *)
(***************************************************************************)

MaxHeapCalls == 5

\* the element each Content.add_* method creates, for one argument each
Fragments ==
  { created(add_title(XMLWrapper("Content"), <<"T">>)),
    created(add_text(XMLWrapper("Content"), <<"x">>)),
    created(add_formatted_text(XMLWrapper("Content"), <<"<","b",">">>)),
    created(add_list(XMLWrapper("Content"), <<<<"a">>, <<"b">>>>)),
    created(add_image(XMLWrapper("Content"), <<"a",".","g","i","f">>, <<"a","l","t">>)) }

MaxQuestions == 3

MaxDocQuestions == 2

MaxFormElements == 3

MaxKeyCalls == 3

MaxContentElements == 2

MaxConstructions == 3

Tasks == {1, 2}

QuestionIds == {None, Some(<<>>), Some(<<"m","i","n","e">>), Some(<<"Q","u","e","s","t","i","o","n","I","D","_","2">>)}

Names == {None, Some(<<"N">>)}

QuestionContents == {add_text(XMLWrapper("Content"), <<"x">>)}

QuestionAnswers == {FreeTextAnswer(None, None, None, None, None, None, FALSE, None, None)}

Overviews == {add_title(XMLWrapper("Content"), <<"T">>)}

KeyQuestionIds == {None, Some(<<"m","i","n","e">>)}

Scores == {1, 15}

KeySets ==
  { <<[score |-> 5, answers |-> <<<<"D">>>>]>>,
    <<[score |-> 10, answers |-> <<<<"a">>, <<"b">>>>], [score |-> 5, answers |-> <<<<"c">>>>]>> }

Titles == {<<"T">>}

Texts == {<<>>, <<"$","&","+">>, <<",","/",":">>, <<";","?","@">>, <<"%","<",">">>}

Markups == {<<>>, <<"<","b",">","&","a","m","p",";","<","/","b",">","?">>, <<"a","]","]",">">>}

Lists == {<<>>, <<<<"a">>, <<"b","&">>>>}

Urls == {<<"i","m","g">>, <<"a",".","g","i","f">>, <<"i","m","g",".">>, <<"a",".","c","o","m","/","i","m","g">>}

AltTexts == {<<"a","l","t">>}

RootNames == {"", "Overview"}

DefaultIndent == 4

Indents == {0, DefaultIndent}

OptStrs(S) == {None} \cup {Some(s) : s \in S}

OptInts(S) == {None} \cup {Some(n) : n \in S}

SelectionDicts ==
  { <<>>,
    <<[id |-> <<"a">>, text |-> <<"A","p","p","l","e">>], [id |-> <<"b">>, text |-> <<"B","a","n","a","n","a">>]>>,
    <<[id |-> <<"b">>, text |-> <<"B">>], [id |-> <<"a">>, text |-> <<"A">>]>> }

(***************************************************************************)
(* The state after the module is imported: the counter at 1, an empty      *)
(* form and key, no task inside Question.__init__, nothing built yet.      *)
(***************************************************************************)

NoObj == [cls |-> "", _elements |-> <<>>, _attributes |-> <<>>]

NoArgs == [op |-> ""]

NoOut == [called |-> FALSE]

NoLocals == [self |-> NoObj, auto |-> FALSE, tmp |-> 0]

\* c = Content(); f = QuestionForm()
NoCalls ==
  LET c == XMLWrapper_ref(<<>>, "Content")
      f == XMLWrapper_ref(c.heap, "QuestionForm")
  IN [heap |-> f.heap,
      content |-> c.self,
      form |-> [f.self EXCEPT !._attributes = QuestionForm._attributes],
      questions |-> <<>>,
      roots |-> <<>>]

NoConversions == [n |-> 0, fragments |-> <<>>, converted |-> <<>>, built |-> <<>>, rendered |-> <<>>]

Init ==
  /\ _ID = 1
  /\ questions = <<>>
  /\ constructed = <<>>
  /\ form = QuestionForm
  /\ added = <<>>
  /\ key = AnswerKey
  /\ last = [op |-> "", exc |-> "", n |-> 0, calls |-> <<>>]
  /\ pc = [t \in Tasks |-> "idle"]
  /\ loc = [t \in Tasks |-> NoLocals]
  /\ obj = NoObj
  /\ args = NoArgs
  /\ out = NoOut
  /\ mem = NoCalls
  /\ snap = NoConversions

(***************************************************************************)
(* Sequential construction of questions.                                   *)
(***************************************************************************)

\* q = Question(content, answer, name, is_required, question_id)
NewQuestion(ids, names, requireds, max) ==
  /\ Len(questions) < max
  /\ \E question_id \in ids, name \in names, is_required \in requireds,
        content \in QuestionContents, answer \in QuestionAnswers :
       LET r == Question(content, answer, name, is_required, question_id, _ID)
       IN /\ questions' = Append(questions, r.self)
          /\ constructed' = Append(constructed, [auto |-> ~TruthyStr(question_id),
                                                 question_id |-> question_id])
          /\ _ID' = r._ID
  /\ UNCHANGED <<form, added, key, last, pc, loc, obj, args, out, mem, snap>>

Next == NewQuestion(QuestionIds, Names, BOOLEAN, MaxQuestions)

Spec == Init /\ [][Next]_vars

(***************************************************************************)
(* A QuestionForm of overviews and of questions constructed earlier.       *)
(***************************************************************************)

\* form.add_overview(overview)
AddOverview ==
  /\ Len(form._elements) < MaxFormElements
  /\ \E overview \in Overviews :
       /\ form' = add_overview(form, overview)
       /\ added' = Append(added, [op |-> "add_overview", arg |-> overview])
  /\ UNCHANGED <<_ID, questions, constructed, key, last, pc, loc, obj, args, out, mem, snap>>

\* form.add_question(q) for a question constructed earlier
AddQuestion ==
  /\ Len(form._elements) < MaxFormElements
  /\ \E i \in 1..Len(questions) :
       /\ form' = add_question(form, questions[i])
       /\ added' = Append(added, [op |-> "add_question", arg |-> questions[i]])
  /\ UNCHANGED <<_ID, questions, constructed, key, last, pc, loc, obj, args, out, mem, snap>>

NextForm ==
  \/ NewQuestion(KeyQuestionIds, Names, {FALSE}, MaxDocQuestions)
  \/ AddOverview
  \/ AddQuestion

SpecForm == Init /\ [][NextForm]_vars

(***************************************************************************)
(* An AnswerKey for questions constructed earlier.                         *)
(***************************************************************************)

\* key.add_max_score(score); last.n counts the calls made on key and
\* last.calls lists the arguments of its add_question_keys calls
AddMaxScore ==
  /\ last.n < MaxKeyCalls
  /\ \E score \in Scores :
       LET r == add_max_score(key, score)
       IN /\ key' = r.self
          /\ last' = [op |-> "add_max_score", exc |-> r.exc, n |-> last.n + 1,
                      calls |-> last.calls]
  /\ UNCHANGED <<_ID, questions, constructed, form, added, pc, loc, obj, args, out, mem, snap>>

\* key.add_question_keys(q, keys)
AddQuestionKeys ==
  /\ last.n < MaxKeyCalls
  /\ \E i \in 1..Len(questions), keys \in KeySets :
       LET r == add_question_keys(key, questions[i], keys)
       IN /\ key' = r.self
          /\ last' = [op |-> "add_question_keys", exc |-> r.exc, n |-> last.n + 1,
                      calls |-> Append(last.calls, [question |-> questions[i], keys |-> keys])]
  /\ UNCHANGED <<_ID, questions, constructed, form, added, pc, loc, obj, args, out, mem, snap>>

NextKey ==
  \/ NewQuestion(KeyQuestionIds, {None}, {FALSE}, MaxDocQuestions)
  \/ AddMaxScore
  \/ AddQuestionKeys

SpecKey == Init /\ [][NextKey]_vars

(***************************************************************************)
(* Questions constructed by concurrent tasks (threads).  A task can be     *)
(* preempted between the read of _ID at line 370 and the `_ID += 1` of     *)
(* line 385, which is itself a read followed by a write.                   *)
(***************************************************************************)

InFlight == {t \in Tasks : pc[t] # "idle"}

\* lines 369-370: the id is formed from the counter's current value
BeginQuestion(t) ==
  /\ pc[t] = "idle"
  /\ Len(questions) + Cardinality(InFlight) < MaxConstructions
  /\ \E question_id \in KeyQuestionIds :
       loc' = [loc EXCEPT ![t] = [self |-> Question_begin(question_id, _ID),
                                  auto |-> ~TruthyStr(question_id), tmp |-> 0]]
  /\ pc' = [pc EXCEPT ![t] = "add_id"]
  /\ UNCHANGED <<_ID, questions, constructed, form, added, key, last, obj, args, out, mem, snap>>

\* line 385, the read of self.__class__._ID
LoadID(t) ==
  /\ pc[t] = "add_id"
  /\ loc' = [loc EXCEPT ![t].tmp = _ID]
  /\ pc' = [pc EXCEPT ![t] = "store"]
  /\ UNCHANGED <<_ID, questions, constructed, form, added, key, last, obj, args, out, mem, snap>>

\* line 385, the write of self.__class__._ID, and the rest of the constructor
StoreID(t) ==
  /\ pc[t] = "store"
  /\ \E content \in QuestionContents, answer \in QuestionAnswers :
       LET r == _add_id(loc[t].self, loc[t].tmp)
       IN /\ _ID' = r._ID
          /\ questions' = Append(questions, Question_finish(r.self, content, answer, None, FALSE))
          /\ constructed' = Append(constructed, [auto |-> loc[t].auto])
  /\ loc' = [loc EXCEPT ![t] = NoLocals]
  /\ pc' = [pc EXCEPT ![t] = "idle"]
  /\ UNCHANGED <<form, added, key, last, obj, args, out, mem, snap>>

NextConcurrent == \E t \in Tasks : BeginQuestion(t) \/ LoadID(t) \/ StoreID(t)

SpecConcurrent == Init /\ [][NextConcurrent]_vars

(***************************************************************************)
(* One Content or Answer built and then rendered.                          *)
(***************************************************************************)

Building == obj.cls = "Content" /\ ~out.called /\ Len(obj._elements) < MaxContentElements

Call(call) == args' = [args EXCEPT !.calls = Append(@, call)]

Rest == <<_ID, questions, constructed, form, added, key, last, pc, loc, mem, snap>>

NewContent ==
  /\ obj = NoObj
  /\ obj' = XMLWrapper("Content")
  /\ args' = [op |-> "Content", calls |-> <<>>]
  /\ UNCHANGED <<Rest, out>>

AddTitle ==
  /\ Building
  /\ \E title \in Titles :
       obj' = add_title(obj, title) /\ Call([op |-> "add_title", text |-> title])
  /\ UNCHANGED <<Rest, out>>

AddText ==
  /\ Building
  /\ \E text \in Texts :
       obj' = add_text(obj, text) /\ Call([op |-> "add_text", text |-> text])
  /\ UNCHANGED <<Rest, out>>

AddFormattedText ==
  /\ Building
  /\ \E text \in Markups :
       obj' = add_formatted_text(obj, text) /\ Call([op |-> "add_formatted_text", text |-> text])
  /\ UNCHANGED <<Rest, out>>

AddList ==
  /\ Building
  /\ \E items \in Lists :
       obj' = add_list(obj, items) /\ Call([op |-> "add_list", items |-> items])
  /\ UNCHANGED <<Rest, out>>

AddImage ==
  /\ Building
  /\ \E url \in Urls, alt_text \in AltTexts :
       /\ obj' = add_image(obj, url, alt_text)
       /\ Call([op |-> "add_image", url |-> url, alt_text |-> alt_text])
  /\ UNCHANGED <<Rest, out>>

NewFreeTextAnswer ==
  /\ obj = NoObj
  /\ \E default_text \in OptStrs({<<"d">>}), lines_in_box \in OptInts({2}),
        reg_exp \in OptStrs({<<>>, <<"r">>}), error_text \in OptStrs({<<"e">>}),
        min_length \in OptInts({0, 2}), max_length \in OptInts({2}),
        is_numeric \in BOOLEAN, min_val \in OptInts({0}), max_val \in OptInts({3}) :
       /\ obj' = FreeTextAnswer(default_text, lines_in_box, reg_exp, error_text,
                                min_length, max_length, is_numeric, min_val, max_val)
       /\ args' = [op |-> "FreeTextAnswer", default_text |-> default_text,
                   lines_in_box |-> lines_in_box, reg_exp |-> reg_exp,
                   error_text |-> error_text, min_length |-> min_length,
                   max_length |-> max_length, is_numeric |-> is_numeric,
                   min_val |-> min_val, max_val |-> max_val]
  /\ UNCHANGED <<Rest, out>>

NewSelectionAnswer ==
  /\ obj = NoObj
  /\ \E selections \in SelectionDicts, answer_style \in OptStrs({<<"r","a","d","i","o","b","u","t","t","o","n">>}),
        min_selections \in OptInts({0, 1}), max_selections \in OptInts({1, 2}) :
       /\ obj' = SelectionAnswer(selections, answer_style, min_selections, max_selections)
       /\ args' = [op |-> "SelectionAnswer", selections |-> selections,
                   answer_style |-> answer_style, min_selections |-> min_selections,
                   max_selections |-> max_selections]
  /\ UNCHANGED <<Rest, out>>

\* obj.to_string(root_name, url_safe, formatted, indent)
CallToString ==
  /\ obj # NoObj
  /\ ~out.called
  /\ \E root_name \in RootNames, url_safe \in BOOLEAN, formatted \in BOOLEAN,
        indent \in Indents :
       /\ (formatted \/ indent = DefaultIndent)
       /\ out' = [called |-> TRUE, root_name |-> root_name, url_safe |-> url_safe,
                  formatted |-> formatted, indent |-> indent,
                  result |-> to_string(obj, root_name, url_safe, formatted, indent)]
  /\ UNCHANGED <<Rest, obj, args>>

NextRender ==
  \/ NewContent
  \/ AddTitle
  \/ AddText
  \/ AddFormattedText
  \/ AddList
  \/ AddImage
  \/ NewFreeTextAnswer
  \/ NewSelectionAnswer
  \/ CallToString

SpecRender == Init /\ [][NextRender]_vars

(***************************************************************************)
(* A Content that is converted and then added to: one Content c and one    *)
(* QuestionForm f on the heap, questions constructed from c, and the roots *)
(* that f.compile_elements() returned.  snap records the tree each         *)
(* conversion produced, computed from the trees as they were at the call.  *)
(***************************************************************************)

Others == <<questions, constructed, form, added, key, last, pc, loc, obj, args, out>>

\* c.add_title(..) / add_text(..) / add_formatted_text(..) / add_list(..) / add_image(..)
ContentAdd ==
  /\ snap.n < MaxHeapCalls
  /\ \E fragment \in Fragments :
       /\ mem' = [mem EXCEPT !.heap = append_element_ref(@, mem.content, fragment)]
       /\ snap' = [snap EXCEPT !.n = @ + 1, !.fragments = Append(@, fragment)]
  /\ UNCHANGED <<_ID, Others>>

\* f.add_overview(c)
FormAddOverview ==
  /\ snap.n < MaxHeapCalls
  /\ mem' = [mem EXCEPT !.heap = add_overview_ref(@, mem.form, mem.content)]
  /\ snap' = [snap EXCEPT !.n = @ + 1,
                          !.converted = Append(@, compile_elements(value_of(mem.heap, mem.content), "Overview"))]
  /\ UNCHANGED <<_ID, Others>>

\* q = Question(c, answer)
QuestionFrom ==
  /\ snap.n < MaxHeapCalls
  /\ \E answer \in QuestionAnswers :
       LET r == Question_ref(mem.heap, mem.content, answer, None, FALSE, None, _ID)
           v == Question(value_of(mem.heap, mem.content), answer, None, FALSE, None, _ID)
       IN /\ mem' = [mem EXCEPT !.heap = r.heap, !.questions = Append(@, r.self)]
          /\ snap' = [snap EXCEPT !.n = @ + 1, !.built = Append(@, v.self._elements)]
          /\ _ID' = r._ID
  /\ UNCHANGED Others

\* f.add_question(q) for a question constructed earlier
FormAddQuestion ==
  /\ snap.n < MaxHeapCalls
  /\ \E i \in 1..Len(mem.questions) :
       /\ mem' = [mem EXCEPT !.heap = add_question_ref(@, mem.form, mem.questions[i])]
       /\ snap' = [snap EXCEPT !.n = @ + 1,
                               !.converted = Append(@, compile_elements(value_of(mem.heap, mem.questions[i]), "Question"))]
  /\ UNCHANGED <<_ID, Others>>

\* root = f.compile_elements(), the conversion a render of f starts with
FormCompile ==
  /\ snap.n < MaxHeapCalls
  /\ LET r == compile_elements_ref(mem.heap, mem.form, "")
     IN /\ mem' = [mem EXCEPT !.heap = r.heap, !.roots = Append(@, r.ref)]
        /\ snap' = [snap EXCEPT !.n = @ + 1,
                                !.rendered = Append(@, compile_elements(value_of(mem.heap, mem.form), ""))]
  /\ UNCHANGED <<_ID, Others>>

NextHeap ==
  \/ ContentAdd
  \/ FormAddOverview
  \/ QuestionFrom
  \/ FormAddQuestion
  \/ FormCompile

SpecHeap == Init /\ [][NextHeap]_vars

(***************************************************************************)
(* Properties.                                                             *)
(***************************************************************************)

\* whether p occurs in s
Contains(s, p) == \E i \in 1..(Len(s) + 1) : StartsAt(s, i, p)

ChildTags(elements) == [i \in 1..Len(elements) |-> elements[i].tag]

\* the tags of elem and of all its descendants
RECURSIVE TagSet(_)
TagSet(elem) == {elem.tag} \cup UNION {TagSet(elem.children[i]) : i \in 1..Len(elem.children)}

\* the n of an id QuestionID_<n> handed out so far, 0 for any other id
AutoNumber(id) ==
  LET S == {n \in 1.._ID : id = Chars("QuestionID_") \o str(n)}
  IN IF S = {} THEN 0 ELSE CHOOSE n \in S : TRUE

\* C1: in a sequential series of Question constructions, with or without
\* caller-supplied ids, the numbers n of the auto-assigned ids QuestionID_<n>
\* strictly increase in construction order, so no two auto-assigned ids are equal.
C1_AutoIdsStrictlyIncrease ==
  \A i, j \in 1..Len(questions) :
    (i < j /\ constructed[i].auto /\ constructed[j].auto) =>
      /\ AutoNumber(questions[i]._question_id) > 0
      /\ AutoNumber(questions[i]._question_id) < AutoNumber(questions[j]._question_id)
      /\ questions[i]._question_id # questions[j]._question_id

\* two auto-assigned questions with a caller-identified one constructed between them
C1_Witness ==
  /\ Len(questions) = 3
  /\ constructed[1].auto /\ ~constructed[2].auto /\ constructed[3].auto

\* C2: under every interleaving of concurrent constructions, the questions
\* without a caller-supplied id have pairwise distinct ids (those already formed
\* by a task still inside the constructor included) and no increment is lost.
C2_ConcurrentIdsDistinct ==
  LET done == {i \in 1..Len(questions) : constructed[i].auto}
      busy == {t \in InFlight : loc[t].auto}
  IN /\ \A i, j \in done : i # j => questions[i]._question_id # questions[j]._question_id
     /\ \A t \in busy, i \in done : loc[t].self._question_id # questions[i]._question_id
     /\ \A t, u \in busy : t # u => loc[t].self._question_id # loc[u].self._question_id
     /\ (InFlight = {} => _ID = 1 + Len(questions))

IsQuestionNode(e) == e.tag = "Question"

IsAddQuestion(c) == c.op = "add_question"

\* C3: the Question nodes of the rendered QuestionForm are, in order, the
\* questions of the add_question calls, one node per call, whatever add_overview
\* calls were made in between.
C3_QuestionNodesInCallOrder ==
  LET nodes == SelectSeq(compile_elements(form, "").children, IsQuestionNode)
      calls == SelectSeq(added, IsAddQuestion)
  IN nodes = [i \in 1..Len(calls) |-> compile_elements(calls[i].arg, "Question")]

\* two different questions added around an overview
C3_Witness ==
  /\ Len(added) = 3
  /\ added[1].op = "add_question" /\ added[2].op = "add_overview" /\ added[3].op = "add_question"
  /\ added[1].arg # added[3].arg

IsValueMapping(e) == e.tag = "QualificationValueMapping"

\* C4: add_max_score succeeds at most once per AnswerKey: a call on a key whose
\* score was added fails with the usage error (AssertionError) and leaves the
\* key's children and its score-added flag as they were.
C4_MaxScoreAtMostOnce ==
  /\ [](Len(SelectSeq(key._elements, IsValueMapping)) <= 1)
  /\ [][(last'.n = last.n + 1 /\ last'.op = "add_max_score" /\ key._is_score_added)
          => (last'.exc = "AssertionError" /\ key' = key)]_vars

\* a second add_max_score has failed on a key that holds question keys and a score
C4_Witness ==
  /\ last.op = "add_max_score" /\ last.exc = "AssertionError"
  /\ key._is_score_added
  /\ ChildTags(key._elements) = <<"Question", "QualificationValueMapping">>

\* C5: a SelectionAnswer given integer min_selections and max_selections renders
\* with to_string, and its children are, in this order, MinSelectionCount,
\* MaxSelectionCount, StyleSuggestion (each only if its argument was supplied) and
\* then Selections, holding one Selection (SelectionIdentifier, Text) per option
\* in insertion order.
C5_SelectionAnswerRenders ==
  (args.op = "SelectionAnswer" /\ args.min_selections # None /\ args.max_selections # None
   /\ out.called) =>
    LET tags == ChildTags(obj._elements)
        order == <<"MinSelectionCount", "MaxSelectionCount", "StyleSuggestion", "Selections">>
        pos(tag) == CHOOSE k \in 1..4 : order[k] = tag
        sels == obj._elements[Len(obj._elements)].children
    IN /\ out.result.exc = ""
       /\ \A i \in 1..Len(tags) : tags[i] \in {order[k] : k \in 1..4}
       /\ \A i, j \in 1..Len(tags) : i < j => pos(tags[i]) < pos(tags[j])
       /\ tags[Len(tags)] = "Selections"
       /\ ("StyleSuggestion" \in {tags[i] : i \in 1..Len(tags)} => args.answer_style # None)
       /\ sels = [i \in 1..Len(args.selections) |->
                    [Element("Selection", <<>>) EXCEPT !.children =
                       <<TextElement("SelectionIdentifier", StrText(args.selections[i].id)),
                         TextElement("Text", StrText(args.selections[i].text))>>]]

IsConstraints(e) == e.tag = "Constraints"

\* C6: a FreeTextAnswer constructed with is_numeric=true holds no Length and no
\* AnswerFormatRegex node, whatever the other arguments, and its one Constraints
\* node holds exactly one child, IsNumeric; its rendering names neither node.
C6_NumericExcludesLengthAndRegex ==
  (args.op = "FreeTextAnswer" /\ args.is_numeric) =>
    LET tree == compile_elements(obj, "")
        cons == SelectSeq(obj._elements, IsConstraints)
    IN /\ "Length" \notin TagSet(tree)
       /\ "AnswerFormatRegex" \notin TagSet(tree)
       /\ Len(cons) = 1
       /\ ChildTags(cons[1].children) = <<"IsNumeric">>
       /\ (out.called /\ out.result.exc = "") =>
            /\ ~Contains(out.result.value, Chars("Length"))
            /\ ~Contains(out.result.value, Chars("AnswerFormatRegex"))

\* a numeric answer given a regex and both length bounds as well, rendered
C6_Witness ==
  /\ args.op = "FreeTextAnswer" /\ args.is_numeric
  /\ TruthyStr(args.reg_exp) /\ TruthyInt(args.min_length) /\ TruthyInt(args.max_length)
  /\ out.called /\ out.result.exc = ""
  /\ Contains(out.result.value, Chars("IsNumeric"))

\* C7: a FreeTextAnswer holds exactly one Constraints node when a reg_exp, a
\* min_length or max_length (any supplied non-negative integer) or is_numeric=true
\* is given and none otherwise; DefaultText and NumberOfLinesSuggestion are
\* siblings of Constraints placed after it, never inside it.
C7_ConstraintsIffGiven ==
  args.op = "FreeTextAnswer" =>
    LET given == \/ TruthyStr(args.reg_exp)
                 \/ args.min_length # None
                 \/ args.max_length # None
                 \/ args.is_numeric
        tags == ChildTags(obj._elements)
        cons == SelectSeq(obj._elements, IsConstraints)
    IN /\ Len(cons) = IF given THEN 1 ELSE 0
       /\ \A i, j \in 1..Len(tags) :
            (tags[i] = "Constraints" /\ tags[j] \in {"DefaultText", "NumberOfLinesSuggestion"})
              => i < j
       /\ \A i \in 1..Len(cons) :
            TagSet(cons[i]) \cap {"DefaultText", "NumberOfLinesSuggestion"} = {}

\* the percent code of one character: the nine reserved characters, no other
UrlCode(c) ==
  CASE c = "$" -> <<"%","2","4">> [] c = "&" -> <<"%","2","6">> [] c = "+" -> <<"%","2","B">>
    [] c = "," -> <<"%","2","C">> [] c = "/" -> <<"%","2","F">> [] c = ":" -> <<"%","3","A">>
    [] c = ";" -> <<"%","3","B">> [] c = "?" -> <<"%","3","F">> [] c = "@" -> <<"%","4","0">>
    [] OTHER -> <<c>>

\* C8: the URL-safe rendering is the plain rendering with each of the nine
\* characters $ & + , / : ; ? @ replaced by its percent code, simultaneously and
\* character by character, every other character (<, > and % included) kept in
\* place.
C8_UrlSafeIsCharacterSubstitution ==
  (out.called /\ out.url_safe /\ out.result.exc = "") =>
    LET plain == to_string(obj, out.root_name, FALSE, out.formatted, out.indent).value
    IN out.result.value = concat([i \in 1..Len(plain) |-> UrlCode(plain[i])])

\* a URL-safe rendering of a text holding "%", "<" and ">": the escaped "<" comes
\* out as %26lt%3B, the "%" of the text and the "<" of the markup stay
C8_Witness ==
  /\ out.called /\ out.url_safe /\ out.result.exc = ""
  /\ args.op = "Content" /\ Len(args.calls) > 0
  /\ args.calls[1].op = "add_text" /\ args.calls[1].text = <<"%","<",">">>
  /\ Contains(out.result.value, <<"<","T","e","x","t",">","%","%","2","6","l","t","%","3","B","%","2","6","g","t","%","3","B","<","%","2","F","T","e","x","t",">">>)

\* C9: for every markup m passed to add_formatted_text, the plain rendering holds
\* a FormattedContent element whose body is the literal <![CDATA[ m ]]>, the
\* delimiters and the characters of m verbatim, not as entity references.
C9_FormattedTextIsLiteralCData ==
  (args.op = "Content" /\ out.called /\ ~out.url_safe /\ out.result.exc = "") =>
    \A i \in 1..Len(args.calls) :
      args.calls[i].op = "add_formatted_text" =>
        Contains(out.result.value,
                 <<"<","F","o","r","m","a","t","t","e","d","C","o","n","t","e","n","t",">">> \o CDataOpen \o args.calls[i].text \o CDataClose
                 \o <<"<","/","F","o","r","m","a","t","t","e","d","C","o","n","t","e","n","t",">">>)

\* the file extension of a url: what follows its last ".", none without a "."
FileExtension(url) ==
  LET dots == {i \in 1..Len(url) : url[i] = "."}
  IN IF dots = {} THEN <<>> ELSE SubSeq(url, Max(dots) + 1, Len(url))

\* C10: add_image(url, alt_text) appends one Binary node with the children
\* MimeType, DataURL (= url) and AltText (= alt_text); MimeType holds Type = image
\* and a SubType exactly when the url has a file extension, equal to it; a url
\* with no extension (one with no "." at all, say) gets no SubType.
C10_SubTypeIffExtension ==
  args.op = "Content" =>
    \A i \in 1..Len(args.calls) :
      args.calls[i].op = "add_image" =>
        LET url == args.calls[i].url
            node == obj._elements[i]
            mime == node.children[1]
        IN /\ node.tag = "Binary"
           /\ ChildTags(node.children) = <<"MimeType", "DataURL", "AltText">>
           /\ node.children[2] = TextElement("DataURL", StrText(url))
           /\ node.children[3] = TextElement("AltText", StrText(args.calls[i].alt_text))
           /\ mime.children =
                <<TextElement("Type", StrText(Chars("image")))>>
                \o (IF FileExtension(url) # <<>>
                    THEN <<TextElement("SubType", StrText(FileExtension(url)))>> ELSE <<>>)
(***************************************************************************)
(* C11.  The Question entries of an AnswerKey.                             *)
(***************************************************************************)

KeyEntries == SelectSeq(key._elements, IsQuestionNode)

\* C11: after any sequence of add_question_keys calls the key holds one
\* Question entry per call, in call order; an entry starts with a
\* QuestionIdentifier holding the id of the question of its call, followed by
\* one AnswerOption per score of the call's map in the map's insertion order,
\* and an AnswerOption lists the SelectionIdentifier nodes of its score in the
\* given order and ends with one AnswerScore holding the score.
C11_KeyEntriesFollowCalls ==
  /\ Len(KeyEntries) = Len(last.calls)
  /\ \A i \in 1..Len(last.calls) :
       LET entry == KeyEntries[i]
           call == last.calls[i]
       IN /\ Len(entry.children) = 1 + Len(call.keys)
          /\ entry.children[1].tag = "QuestionIdentifier"
          /\ entry.children[1].text = StrText(call.question._question_id)
          /\ entry.children[1].children = <<>>
          /\ \A k \in 1..Len(call.keys) :
               LET option == entry.children[k + 1]
                   answers == call.keys[k].answers
               IN /\ option.tag = "AnswerOption"
                  /\ Len(option.children) = Len(answers) + 1
                  /\ \A j \in 1..Len(answers) :
                       /\ option.children[j].tag = "SelectionIdentifier"
                       /\ option.children[j].text = StrText(answers[j])
                  /\ option.children[Len(answers) + 1].tag = "AnswerScore"
                  /\ option.children[Len(answers) + 1].text = StrText(str(call.keys[k].score))

\* two calls made, the first with a map whose scores were inserted as 10, 5
C11_Witness ==
  /\ Len(last.calls) = 2
  /\ Len(KeyEntries) = 2
  /\ Len(last.calls[1].keys) = 2
  /\ last.calls[1].keys[1].score > last.calls[1].keys[2].score
  /\ KeyEntries[1].children[2].children[3].text = StrText(<<"1","0">>)
  /\ last.calls[1].question._question_id # last.calls[2].question._question_id

(***************************************************************************)
(* C12.  Conversions are snapshots.                                        *)
(***************************************************************************)

\* C12: converting a Content (or a form) to a node takes a snapshot.  The
\* children of the form and of every question are, after any later call,
\* the trees their conversions produced when they were made, so a later
\* add_title/add_text/add_formatted_text/add_list/add_image on c changes
\* neither them nor what they render; c itself holds every fragment added
\* to it, the new ones included; and a root that f.compile_elements()
\* returned stays as it was when f is appended to afterwards.
C12_ConversionsAreSnapshots ==
  /\ load_all(mem.heap, mem.form._elements) = snap.converted
  /\ Len(mem.questions) = Len(snap.built)
  /\ \A i \in 1..Len(mem.questions) :
       load_all(mem.heap, mem.questions[i]._elements) = snap.built[i]
  /\ Len(mem.roots) = Len(snap.rendered)
  /\ \A i \in 1..Len(mem.roots) : load(mem.heap, mem.roots[i]) = snap.rendered[i]
  /\ load_all(mem.heap, mem.content._elements) = snap.fragments
  /\ compile_elements(value_of(mem.heap, mem.content), "").children = snap.fragments

\* c was added to after an add_overview(c) and after a Question(c, ..), and
\* f was appended to after f.compile_elements()
C12_Witness ==
  /\ \E i \in 1..Len(snap.converted) :
       /\ snap.converted[i].tag = "Overview"
       /\ Len(mem.heap[mem.heap[mem.form._elements].children[i]].children) < Len(snap.fragments)
  /\ \E i \in 1..Len(mem.questions) :
       \E e \in 1..Len(snap.built[i]) :
         /\ snap.built[i][e].tag = "QuestionContent"
         /\ Len(snap.built[i][e].children) < Len(snap.fragments)
  /\ \E i \in 1..Len(mem.roots) :
       Len(mem.heap[mem.roots[i]].children) < Len(mem.heap[mem.form._elements].children)

(***************************************************************************)
(* C13.  The counter and the ids of sequential constructions.              *)
(***************************************************************************)

\* C13: every sequential Question construction advances Question._ID by
\* exactly one, whether or not the caller supplied an id: after k
\* constructions the counter is k + 1.  A caller-supplied non-empty id is
\* the question's id verbatim, and a question constructed without one after
\* k earlier constructions of any kind has the id QuestionID_<k+1>.
C13_CounterAdvancesOnEveryConstruction ==
  /\ _ID = 1 + Len(questions)
  /\ Len(constructed) = Len(questions)
  /\ \A i \in 1..Len(questions) :
       LET given == constructed[i].question_id
           id == questions[i]._question_id
       IN /\ (given # None /\ given[1] # <<>>) => id = given[1]
          /\ (given = None \/ given = Some(<<>>)) => id = Chars("QuestionID_") \o str(i)
          /\ questions[i]._elements[1].tag = "QuestionIdentifier"
          /\ questions[i]._elements[1].text = StrText(id)

\* a caller-identified question, then two without an id (one given None, one
\* given the empty string): they are QuestionID_2 and QuestionID_3
C13_Witness ==
  /\ Len(questions) = 3
  /\ _ID = 4
  /\ constructed[1].question_id = Some(<<"m","i","n","e">>)
  /\ questions[1]._question_id = <<"m","i","n","e">>
  /\ constructed[2].question_id = None
  /\ questions[2]._question_id = <<"Q","u","e","s","t","i","o","n","I","D","_","2">>
  /\ constructed[3].question_id = Some(<<>>)
  /\ questions[3]._question_id = <<"Q","u","e","s","t","i","o","n","I","D","_","3">>

====
